---- MODULE Spec2Model ----
(***************************************************************************)
(* Model of the historical-record retrieval engine                         *)
(* src/tw_scrapers/mops_historical_news.py (fetch_ezsearch and helpers).   *)
(*                                                                         *)
(* Representation.                                                         *)
(*  - A Python str is a finite sequence of symbols; a symbol is a natural  *)
(*    number and symbols are ordered numerically, so Python's string `<`   *)
(*    is the lexicographic order StrLt.  A zero-padded fixed-width field   *)
(*    of a date or time string ("113/01/05", "08:30:00") is one symbol, so *)
(*    "113/01/05" is <<113, 1, 5>>.  "" is <<>>.                           *)
(*  - Python None is the value None == <<-1>> (-1 is no symbol).           *)
(*  - A datetime is <<ordinal, second, microsecond>>: the proleptic        *)
(*    Gregorian ordinal of its date (what datetime.toordinal() returns),   *)
(*    the second of the day and the microsecond of the second.  A          *)
(*    timedelta is <<days, seconds, microseconds>> as Python keeps it:     *)
(*    0 <= seconds < 86400, 0 <= microseconds < 10^6, days of either sign. *)
(*  - The upstream endpoint is the environment: a database db of raw       *)
(*    records, each filed under a calendar day, answered in database       *)
(*    order and cut at Cap records, plus a per-request choice of how the   *)
(*    HTTP exchange goes (ReqKinds).                                       *)
(***************************************************************************)
EXTENDS Integers, Sequences, FiniteSets, TLC

(***************************************************************************)
(* Bounds of the model and program constants.                              *)
(***************************************************************************)
\* The truncation threshold tested at line 106 (`len(raw) >= 1000`) and
\* applied by the upstream.  The model runs the engine with a threshold
\* scaled down to Cap so that responses below, at and above the threshold
\* are enumerable; every definition is parametric in it.
Cap == 3
\* Most responses of one invocation whose body holds no JSON object.
MaxNoJson == 1
\* Short ranges: spans 0..MaxShort days after the start date.
MaxShort == 3
\* Long ranges: spans BlockDays .. BlockDays+MaxOver days.
MaxOver == 1
\* timedelta(days=30) at line 114.
BlockDays == 30
\* ROC year offset used by _roc_to_date / _date_to_roc (lines 29, 32).
RocOffset == 1911
\* Gregorian year the model's ranges start in (2024 = ROC 113, a leap year).
HorizonYear == 2024

None == <<-1>>

(***************************************************************************)
(* Calendar: datetime(y, m, d) <-> ordinal, as in Python's datetime.       *)
(***************************************************************************)
IsLeap(y) == (y % 4 = 0) /\ ((y % 100 # 0) \/ (y % 400 = 0))

DaysInMonth(y, m) ==
    IF m = 2 THEN (IF IsLeap(y) THEN 29 ELSE 28)
    ELSE IF m \in {4, 6, 9, 11} THEN 30 ELSE 31

RECURSIVE DaysBeforeMonth(_, _)
DaysBeforeMonth(y, m) ==
    IF m <= 1 THEN 0 ELSE DaysBeforeMonth(y, m - 1) + DaysInMonth(y, m - 1)

DaysBeforeYear(y) ==
    LET p == y - 1 IN p * 365 + (p \div 4) - (p \div 100) + (p \div 400)

\* datetime(y, m, d).toordinal()
Ymd2Ord(y, m, d) == DaysBeforeYear(y) + DaysBeforeMonth(y, m) + d

ValidYmd(y, m, d) == m \in 1..12 /\ d >= 1 /\ d <= DaysInMonth(y, m)

\* The calendar days of the horizon (the horizon year and the year before
\* it), as <<y, m, d>>.
HorizonDays ==
    {t \in ((HorizonYear - 1)..HorizonYear) \X (1..12) \X (1..31) :
        ValidYmd(t[1], t[2], t[3])}

\* The year, month and day of the date with ordinal n (dt.year, dt.month,
\* dt.day), for the dates of the horizon.
Ord2Ymd ==
    [n \in Ymd2Ord(HorizonYear - 1, 1, 1)..Ymd2Ord(HorizonYear, 12, 31) |->
        CHOOSE t \in HorizonDays : Ymd2Ord(t[1], t[2], t[3]) = n]

(***************************************************************************)
(* _roc_to_date / _date_to_roc (lines 27-32).  A ROC date string "y/m/d"   *)
(* is the triple of its fields.                                            *)
(***************************************************************************)
\* datetime(int(y) + 1911, int(m), int(d)) raises ValueError on a date that
\* does not exist.
RocParses(roc) == ValidYmd(roc[1] + RocOffset, roc[2], roc[3])

\* datetime(int(y) + 1911, int(m), int(d)): midnight of that date
_roc_to_date(roc) == <<Ymd2Ord(roc[1] + RocOffset, roc[2], roc[3]), 0, 0>>

\* The year, month and day of dt; its time of day is not written.
_date_to_roc(dt) ==
    LET t == Ord2Ymd[dt[1]] IN <<t[1] - RocOffset, t[2], t[3]>>

\* The ordinal of the calendar date a ROC date string names, and the ROC
\* date string of the calendar date with ordinal n.
RocDay(roc) == _roc_to_date(roc)[1]
DayRoc(n) == _date_to_roc(<<n, 0, 0>>)

(***************************************************************************)
(* datetime and timedelta arithmetic, as lines 106-108 and 113-116 use it. *)
(***************************************************************************)
\* The normal form of days d, seconds s, microseconds us.
Normal(d, s, us) ==
    LET s2 == s + (us \div 1000000)
    IN <<d + (s2 \div 86400), s2 % 86400, us % 1000000>>

\* timedelta(days=n)
Days(n) == <<n, 0, 0>>

\* b - a on datetimes: a timedelta
DtSub(b, a) == Normal(b[1] - a[1], b[2] - a[2], b[3] - a[3])

\* dt + td: a datetime
DtAdd(dt, td) == Normal(dt[1] + td[1], dt[2] + td[2], dt[3] + td[3])

\* td // 2: the floor of half the microseconds of td
HalfDelta(td) ==
    LET rs == ((td[1] % 2) * 86400) + td[2]
    IN <<td[1] \div 2, rs \div 2, (((rs % 2) * 1000000) + td[3]) \div 2>>

\* x < y, x <= y and min(x, y) on datetimes
DtLt(x, y) ==
    \/ x[1] < y[1]
    \/ x[1] = y[1] /\ x[2] < y[2]
    \/ x[1] = y[1] /\ x[2] = y[2] /\ x[3] < y[3]

DtLe(x, y) == x = y \/ DtLt(x, y)

DtMin(x, y) == IF DtLt(y, x) THEN y ELSE x

(***************************************************************************)
(* Python str operations on symbol sequences.                              *)
(***************************************************************************)
\* s < t on str
RECURSIVE StrLt(_, _)
StrLt(s, t) ==
    IF t = <<>> THEN FALSE
    ELSE IF s = <<>> THEN TRUE
    ELSE IF Head(s) # Head(t) THEN Head(s) < Head(t)
    ELSE StrLt(Tail(s), Tail(t))

\* kw in s
Contains(kw, s) ==
    \E i \in 1..(Len(s) - Len(kw) + 1) : SubSeq(s, i, i + Len(kw) - 1) = kw

\* bool(x) for a str-or-None value
Truthy(x) == x # None /\ x # <<>>

\* x or y
Or2(x, y) == IF Truthy(x) THEN x ELSE y

(***************************************************************************)
(* The upstream's raw records.  A raw record is a dict; a key that is      *)
(* absent reads as None through row.get(...).                              *)
(***************************************************************************)
Kw == <<7>>

EmptyRaw ==
    [CDATE |-> None, CTIME |-> None, TYPEK |-> None, CODE_NAME |-> None,
     CO_ID |-> None, STOCK_ID |-> None, COMPANY_ID |-> None,
     COMPANY_NAME |-> None, AN_CODE |-> None, AN_NAME |-> None,
     SUBJECT |-> None, DESCRIPTION |-> None, HYPERLINK |-> None]

Templates == 1..4

\* The raw record the upstream holds for template tpl filed under day.
RawRow(day, tpl) ==
    CASE tpl = 1 ->  \* keyword in the subject only
           [EmptyRaw EXCEPT !.CDATE = DayRoc(day), !.CTIME = <<9, 0, 0>>,
                            !.TYPEK = <<1>>, !.CO_ID = <<2, 3>>,
                            !.COMPANY_NAME = <<5>>, !.AN_NAME = <<6>>,
                            !.SUBJECT = <<3, 7, 4>>, !.HYPERLINK = <<1>>]
      [] tpl = 2 ->  \* earlier the same day, keyword in the description only
           [EmptyRaw EXCEPT !.CDATE = DayRoc(day), !.CTIME = <<8, 30, 0>>,
                            !.STOCK_ID = <<1, 1>>, !.COMPANY_NAME = <<6>>,
                            !.SUBJECT = <<3>>, !.DESCRIPTION = <<4, 7>>,
                            !.HYPERLINK = <<2>>]
      [] tpl = 3 ->  \* the identity key of template 1, another company
           [EmptyRaw EXCEPT !.CDATE = DayRoc(day), !.CTIME = <<9, 0, 0>>,
                            !.TYPEK = <<1>>, !.COMPANY_ID = <<2, 4>>,
                            !.COMPANY_NAME = <<6>>, !.AN_NAME = <<6>>,
                            !.SUBJECT = <<3, 7, 4>>, !.HYPERLINK = <<1>>]
      [] OTHER ->    \* no date, no time, no keyword; the same on every day
           [EmptyRaw EXCEPT !.COMPANY_NAME = <<5>>, !.DESCRIPTION = <<>>]

(***************************************************************************)
(* _normalize (lines 34-50).  Field names: date, time, market, industry,   *)
(* code, name, itemCode, item, subject, desc, link stand for the eleven    *)
(* keys of the canonical record, in the order of lines 38-48.              *)
(***************************************************************************)
NormalizeRow(row) ==
    [date     |-> row.CDATE,
     time     |-> row.CTIME,
     market   |-> row.TYPEK,
     industry |-> row.CODE_NAME,
     code     |-> Or2(row.CO_ID, Or2(row.STOCK_ID, row.COMPANY_ID)),
     name     |-> row.COMPANY_NAME,
     itemCode |-> row.AN_CODE,
     item     |-> row.AN_NAME,
     subject  |-> row.SUBJECT,
     desc     |-> Or2(row.DESCRIPTION, <<>>),
     link     |-> row.HYPERLINK]

_normalize(data) == [i \in 1..Len(data) |-> NormalizeRow(data[i])]

(***************************************************************************)
(* The merge, order and filter stages of fetch_ezsearch (lines 118-134).   *)
(***************************************************************************)
\* key = (r.get(date), r.get(time), r.get(subject), r.get(link)), line 120
IdentityKey(r) == <<r.date, r.time, r.subject, r.link>>

\* The loop of lines 118-122: seen is the set of keys met so far, acc the
\* rows kept so far.
RECURSIVE DedupLoop(_, _, _)
DedupLoop(rows_all, seen, acc) ==
    IF rows_all = <<>> THEN acc
    ELSE LET r == Head(rows_all)
             key == IdentityKey(r)
         IN IF key \in seen
            THEN DedupLoop(Tail(rows_all), seen, acc)
            ELSE DedupLoop(Tail(rows_all), seen \cup {key}, Append(acc, r))

\* Mutant: the last record of each identity key is kept, not the first.
Dedup_KeepLast(rows_all) ==
    LET Rev(q) == [i \in 1..Len(q) |-> q[Len(q) + 1 - i]]
    IN Rev(DedupLoop(Rev(rows_all), {}, <<>>))

Dedup(rows_all) == DedupLoop(rows_all, {}, <<>>)

\* key=lambda r: ((r.get(date) or ""), (r.get(time) or "")), line 124
SortKey(r) == <<Or2(r.date, <<>>), Or2(r.time, <<>>)>>

\* k1 < k2 on the key tuples (tuple comparison: first component, then second)
KeyLt(k1, k2) ==
    IF k1[1] # k2[1] THEN StrLt(k1[1], k2[1]) ELSE StrLt(k1[2], k2[2])

\* list.sort is stable: a row goes after every row already placed whose key
\* is not greater than its own.
RECURSIVE InsertSorted(_, _)
InsertSorted(sorted, r) ==
    IF sorted = <<>> THEN <<r>>
    ELSE IF KeyLt(SortKey(r), SortKey(Head(sorted)))
         THEN <<r>> \o sorted
         ELSE <<Head(sorted)>> \o InsertSorted(Tail(sorted), r)

RECURSIVE SortLoop(_, _)
SortLoop(rows, sorted) ==
    IF rows = <<>> THEN sorted
    ELSE SortLoop(Tail(rows), InsertSorted(sorted, Head(rows)))

\* Mutant: the sort of line 124 left out.
SortRows_Unsorted(rows) == rows

\* rows.sort(key=...), line 124
SortRows(rows) == SortLoop(rows, <<>>)

\* The condition of lines 130-133 for one row.
KeywordHit(keyword, r) ==
    \/ Contains(keyword, Or2(r.subject, <<>>))
    \/ Contains(keyword, Or2(r.desc, <<>>))
    \/ Contains(keyword, Or2(r.item, <<>>))
    \/ Contains(keyword, Or2(r.name, <<>>))

\* Mutant: the second-pass filter of lines 126-134 left out.
KeywordFilter_Off(rows, subject) == rows

\* Lines 126-134: `if subject:` then the list comprehension.
KeywordFilter(rows, subject) ==
    IF Truthy(subject)
    THEN LET Hit(r) == KeywordHit(subject, r) IN SelectSeq(rows, Hit)
    ELSE rows

\* Lines 124-135 applied to the rows of either mode.
OrderAndFilter(rows, subject) == KeywordFilter(SortRows(rows), subject)

\* Lines 98-101 and 124-135: what fast mode returns for the payload data.
FastRows(data, subject) == OrderAndFilter(_normalize(data), subject)

(***************************************************************************)
(* The upstream endpoint (environment of _post_once, lines 68-72).         *)
(* A database is a sequence of entries <<day, tpl>>: the raw record        *)
(* RawRow(day, tpl) filed under the calendar day with ordinal day.  A      *)
(* query answers the records filed under SDATE..EDATE in database order,   *)
(* cut at Cap records.                                                     *)
(***************************************************************************)
Take(seq, n) == SubSeq(seq, 1, IF Len(seq) < n THEN Len(seq) ELSE n)

InWindow(database, sd, ed) ==
    LET In(e) == RocDay(sd) <= e[1] /\ e[1] <= RocDay(ed)
    IN SelectSeq(database, In)

\* Number of records the upstream holds for the window (before the cut).
TrueCount(database, sd, ed) == Len(InWindow(database, sd, ed))

UpstreamData(database, sd, ed) ==
    LET hits == Take(InWindow(database, sd, ed), Cap)
    IN [i \in 1..Len(hits) |-> RawRow(hits[i][1], hits[i][2])]

\* How one HTTP exchange of _post_once goes:
\*   ok          200 with a JSON object carrying the data list
\*   get_error   the warm-up GET of line 68 raises
\*   post_error  the POST raises or raise_for_status() does (lines 71-72)
\*   no_json     200 with a body holding no "{" (line 79)
\*   bad_json    200 with a body json.loads rejects (line 80)
ReqKinds == {"get_error", "post_error", "bad_json", "no_json", "ok"}

(***************************************************************************)
(* _post_once (lines 52-81): the exception it raises ("none" when it       *)
(* returns) and the list it returns.                                       *)
(***************************************************************************)
_post_once(kind, database, sd, ed) ==
    CASE kind = "get_error"  -> [exc |-> "RequestException", data |-> <<>>]
      [] kind = "post_error" -> [exc |-> "RuntimeError", data |-> <<>>]
      [] kind = "no_json"    -> [exc |-> "none", data |-> <<>>]
      [] kind = "bad_json"   -> [exc |-> "JSONDecodeError", data |-> <<>>]
      [] OTHER               -> [exc |-> "none",
                                 data |-> UpstreamData(database, sd, ed)]

(***************************************************************************)
(* State of one invocation fetch_ezsearch(sdate, edate, subject, mode=mode)*)
(* against the upstream database db.                                       *)
(***************************************************************************)
VARIABLES
    mode,      \* the mode argument
    sdate,     \* the sdate argument, a ROC date
    edate,     \* the edate argument, a ROC date
    subject,   \* the subject argument (the keyword)
    db,        \* the upstream's database
    pc,        \* "start", "fast", "full", "returned" or "raised"
    stack,     \* the active _fetch_chunk calls, outermost first
    cur,       \* cur of the block loop (line 112)
    to,        \* to of the block loop (line 114)
    rows_all,  \* rows_all (line 111)
    rows,      \* rows as it enters the sort of line 124
    result,    \* the list returned to the caller (<<>> until pc = "returned")
    exc,       \* the exception the call ended with ("none" until it raises)
    log        \* history: the upstream requests made so far, in order

vars == <<mode, sdate, edate, subject, db, pc, stack, cur, to, rows_all,
          rows, result, exc, log>>

Min(x, y) == IF x < y THEN x ELSE y

Day0 == Ymd2Ord(HorizonYear, 1, 1)

\* A range of three blocks: two whole blocks and one more day.
LongSpan == 2 * (BlockDays + 1)

\* A range of a week and more: halving it twice gives windows that neither
\* start nor end at midnight.
DeepSpan == MaxShort + 4

\* Requested ranges: short ones, the deep one, ones around the block size,
\* and the long one.
Spans ==
    (0..MaxShort) \cup {DeepSpan} \cup (BlockDays..(BlockDays + MaxOver))
        \cup {LongSpan}

\* An end date before every start date: the last day of the year before.
EarlyEnd == <<HorizonYear - RocOffset - 1, 12, 31>>

\* The days the upstream may hold records for, given a range of span days:
\* its first and second day, the first day of its right half, its last day,
\* and the day after it.
DataDays(span) ==
    {Day0, Day0 + Min(1, span), Day0 + Min((span \div 2) + 1, span),
     Day0 + span, Day0 + span + 1}

\* What the upstream may hold for one day, as templates in database order:
\* nothing; one record; two records, the later first; two records with one
\* identity key; one undated record; one record twice; Cap records; Cap + 1.
Cycle == <<2, 1, 4, 3>>
Saturated(n) == [i \in 1..n |-> Cycle[((i - 1) % 4) + 1]]
DayContents ==
    {<<>>, <<1>>, <<1, 2>>, <<1, 3>>, <<4>>, <<1, 1>>,
     Saturated(Cap), Saturated(Cap + 1)}

\* The entries filing the templates of content under day.
Place(day, content) == [i \in 1..Len(content) |-> <<day, content[i]>>]

\* Databases with records on at most two of the data days, in calendar order.
SparseDatabases(span) ==
    LET days == {p \in DataDays(span) \X DataDays(span) : p[1] < p[2]}
    IN {Place(p[1], cA) \o Place(p[2], cB) :
           p \in days, cA \in DayContents, cB \in DayContents}

\* The database with Cap records on every day first..last: every query of
\* these days comes back cut.
RECURSIVE EveryDay(_, _)
EveryDay(first, last) ==
    IF first > last THEN <<>>
    ELSE Place(first, Saturated(Cap)) \o EveryDay(first + 1, last)

\* Databases for the long range: nothing; a record in the second block; a
\* record in the first block and two with one identity key on the last day.
LongDatabases(span) ==
    {<<>>,
     Place(Day0 + BlockDays + 1, <<1>>),
     Place(Day0, <<2>>) \o Place(Day0 + span, <<1, 3>>)}

\* Databases for the deep range: Cap records on every day, or on the third
\* day from the end only.
DeepDatabases(span) ==
    {EveryDay(Day0, Day0 + span), Place(Day0 + span - 2, Saturated(Cap))}

\* The databases tried for a range of span days; the short ranges are also
\* tried against the database that cuts every query.
Databases(span) ==
    IF span = LongSpan THEN LongDatabases(span)
    ELSE IF span = DeepSpan THEN DeepDatabases(span)
    ELSE SparseDatabases(span) \cup
         (IF span <= MaxShort THEN {EveryDay(Day0, Day0 + span)} ELSE {})

\* A call of fetch_ezsearch.  Ranges of a block or more are requested with a
\* keyword, as the "mops range" command requests them.
Init ==
    /\ mode \in {"fast", "full", "turbo"}
    /\ sdate = DayRoc(Day0)
    /\ subject \in {<<>>, Kw}
    /\ \/ /\ edate = EarlyEnd
          /\ db \in Databases(0)
       \/ \E span \in Spans :
             /\ edate = DayRoc(Day0 + span)
             /\ db \in Databases(span)
             /\ span >= BlockDays => subject = Kw
    /\ pc = "start"
    /\ stack = <<>>
    /\ cur = Days(0)
    /\ to = Days(0)
    /\ rows_all = <<>>
    /\ rows = <<>>
    /\ result = <<>>
    /\ exc = "none"
    /\ log = <<>>

(***************************************************************************)
(* fetch_ezsearch, lines 92-116: validation, then the first request is     *)
(* prepared.                                                               *)
(***************************************************************************)
\* Mutant: the block end not clamped to the end of the range.
BlockEnd_Unclamped(c, end_dt) == DtAdd(c, Days(BlockDays))

\* to = min(cur + timedelta(days=30), end_dt), line 114
BlockEnd(c, end_dt) == DtMin(DtAdd(c, Days(BlockDays)), end_dt)

\* A call _fetch_chunk(a, b) that has not made its request yet.
Frame(a, b) == [a |-> a, b |-> b, st |-> "fetch", mid |-> a, left |-> <<>>]

\* Mutant: the mode check of lines 92-93 left out.
Invalid_NoModeCheck(m, sd, ed) ==
    \/ ~RocParses(sd)
    \/ ~RocParses(ed)
    \/ DtLt(_roc_to_date(ed), _roc_to_date(sd))

\* Lines 92-96: the ValueError cases.
Invalid(m, sd, ed) ==
    \/ m \notin {"fast", "full"}
    \/ ~RocParses(sd)
    \/ ~RocParses(ed)
    \/ DtLt(_roc_to_date(ed), _roc_to_date(sd))

Validate ==
    /\ pc = "start"
    /\ IF Invalid(mode, sdate, edate)
       THEN /\ pc' = "raised"
            /\ exc' = "ValueError"
            /\ UNCHANGED <<stack, cur, to, rows, result>>
       ELSE IF mode = "fast"
       THEN /\ pc' = "fast"
            /\ exc' = exc
            /\ UNCHANGED <<stack, cur, to, rows, result>>
       ELSE /\ exc' = exc
            /\ cur' = _roc_to_date(sdate)
            /\ IF DtLe(cur', _roc_to_date(edate)) \* the loop test, line 113
               THEN /\ pc' = "full"
                    /\ to' = BlockEnd(cur', _roc_to_date(edate))
                    /\ stack' = <<Frame(cur', to')>>
                    /\ UNCHANGED <<rows, result>>
               ELSE /\ pc' = "returned"
                    /\ rows' = Dedup(rows_all)
                    /\ result' = OrderAndFilter(rows', subject)
                    /\ UNCHANGED <<stack, to>>
    /\ UNCHANGED <<mode, sdate, edate, subject, db, rows_all, log>>

\* What the history keeps of one request: how the exchange went, the SDATE
\* and EDATE form fields, the length of the list _post_once returned, and
\* the number of _fetch_chunk calls enclosing the one that made it.
LogEntry(kind, sd, ed, n, depth) ==
    [kind |-> kind, sd |-> sd, ed |-> ed, n |-> n, depth |-> depth]

(***************************************************************************)
(* Fast mode, lines 98-101 and 124-135.                                    *)
(***************************************************************************)
FetchFast(kind) ==
    /\ pc = "fast"
    /\ LET sd == _date_to_roc(_roc_to_date(sdate))
           ed == _date_to_roc(_roc_to_date(edate))
           out == _post_once(kind, db, sd, ed)
       IN /\ log' = Append(log, LogEntry(kind, sd, ed, Len(out.data), 0))
          /\ IF out.exc # "none"
             THEN /\ pc' = "raised"
                  /\ exc' = out.exc
                  /\ UNCHANGED <<rows, result>>
             ELSE /\ pc' = "returned"
                  /\ exc' = exc
                  /\ rows' = _normalize(out.data)
                  /\ result' = OrderAndFilter(rows', subject)
    /\ UNCHANGED <<mode, sdate, edate, subject, db, stack, cur, to, rows_all>>

(***************************************************************************)
(* Full mode: _fetch_chunk (lines 103-109) and the block loop (111-116).   *)
(***************************************************************************)
\* Mutant: the day test of line 106 left out.
SplitCond_NoDayCheck(raw, a, b) == Len(raw) >= Cap

\* len(raw) >= 1000 and (b - a).days >= 1, line 106
SplitCond(raw, a, b) == Len(raw) >= Cap /\ DtSub(b, a)[1] >= 1

\* mid = a + (b - a) // 2, line 107
Mid(a, b) == DtAdd(a, HalfDelta(DtSub(b, a)))

\* Mutant: the right child starts on mid itself.
RightStart_Overlap(mid) == mid

\* Mutant: the right child starts two days after mid.
RightStart_SkipDay(mid) == DtAdd(mid, Days(2))

\* The start of the right child, mid + timedelta(days=1), line 108
RightStart(mid) == DtAdd(mid, Days(1))

Top(stk) == stk[Len(stk)]
Pop(stk) == SubSeq(stk, 1, Len(stk) - 1)

\* A call returns v to the calls in stk.  A caller waiting for its left
\* child keeps v and calls its right child; a caller waiting for its right
\* child returns left + v to its own caller (line 108).  done: the
\* outermost call returned ret to the block loop.
RECURSIVE Unwind(_, _)
Unwind(stk, v) ==
    IF stk = <<>> THEN [done |-> TRUE, stack |-> <<>>, ret |-> v]
    ELSE LET f == Top(stk)
         IN IF f.st = "left"
            THEN [done |-> FALSE,
                  stack |-> Append(Append(Pop(stk),
                                          [f EXCEPT !.st = "right", !.left = v]),
                                   Frame(RightStart(f.mid), f.b)),
                  ret |-> <<>>]
            ELSE Unwind(Pop(stk), f.left \o v)

\* One request of _fetch_chunk and everything up to the next request, the
\* return or the raise.
FetchChunk(kind) ==
    /\ pc = "full"
    /\ stack # <<>>
    /\ LET f == Top(stack)
           sd == _date_to_roc(f.a)
           ed == _date_to_roc(f.b)
           out == _post_once(kind, db, sd, ed)
           raw == out.data
           end_dt == _roc_to_date(edate)
       IN /\ log' = Append(log, LogEntry(kind, sd, ed, Len(raw),
                                         Len(stack) - 1))
          /\ IF out.exc # "none"
             THEN \* the exception leaves every active call and the loop
                  /\ pc' = "raised"
                  /\ exc' = out.exc
                  /\ stack' = <<>>
                  /\ UNCHANGED <<cur, to, rows_all, rows, result>>
             ELSE IF SplitCond(raw, f.a, f.b)
             THEN LET mid == Mid(f.a, f.b)
                  IN /\ stack' = Append(Append(Pop(stack),
                                           [f EXCEPT !.st = "left", !.mid = mid]),
                                        Frame(f.a, mid))
                     /\ UNCHANGED <<pc, exc, cur, to, rows_all, rows, result>>
             ELSE LET u == Unwind(Pop(stack), _normalize(raw))
                  IN IF ~u.done
                     THEN /\ stack' = u.stack
                          /\ UNCHANGED <<pc, exc, cur, to, rows_all, rows, result>>
                     ELSE \* lines 115-116, then the loop test of line 113
                          /\ rows_all' = rows_all \o u.ret
                          /\ cur' = DtAdd(to, Days(1))
                          /\ exc' = exc
                          /\ IF DtLe(cur', end_dt)
                             THEN /\ to' = BlockEnd(cur', end_dt)
                                  /\ stack' = <<Frame(cur', to')>>
                                  /\ UNCHANGED <<pc, rows, result>>
                             ELSE /\ to' = to
                                  /\ stack' = <<>>
                                  /\ pc' = "returned"
                                  /\ rows' = Dedup(rows_all')
                                  /\ result' = OrderAndFilter(rows', subject)
    /\ UNCHANGED <<mode, sdate, edate, subject, db>>

\* The upstream answers at most MaxNoJson requests of an invocation with a
\* body that holds no JSON object.
NoJsonCount == Cardinality({i \in 1..Len(log) : log[i].kind = "no_json"})

KindsNow ==
    IF NoJsonCount < MaxNoJson THEN ReqKinds ELSE ReqKinds \ {"no_json"}

Next ==
    \/ Validate
    \/ \E kind \in KindsNow : FetchFast(kind)
    \/ \E kind \in KindsNow : FetchChunk(kind)

Spec == Init /\ [][Next]_vars

\* Invocations for the study of termination: a keyword, and an upstream
\* that holds nothing, or Cap records on every day of a short range, or Cap
\* records and more on the first and last day of a range around the block
\* size, or the databases of the long range.
TermDatabases(span) ==
    IF span = LongSpan THEN LongDatabases(span)
    ELSE IF span = DeepSpan THEN DeepDatabases(span)
    ELSE IF span <= MaxShort THEN {<<>>, EveryDay(Day0, Day0 + span)}
    ELSE {<<>>,
          Place(Day0, Saturated(Cap)),
          Place(Day0 + span, Saturated(Cap + 1)),
          Place(Day0, Saturated(Cap)) \o Place(Day0 + span, Saturated(Cap))}

TermInit ==
    /\ Init
    /\ subject = Kw
    /\ db \in TermDatabases(IF edate = EarlyEnd THEN 0
                             ELSE RocDay(edate) - Day0)

\* The interpreter runs the call on: every request that is made gets its
\* answer or its exception, and the statements that follow it are executed.
FairSpec == TermInit /\ [][Next]_vars /\ WF_vars(Next)

(***************************************************************************)
(* Reading the history.                                                    *)
(***************************************************************************)
RangeOf(seq) == {seq[i] : i \in 1..Len(seq)}

\* _post_once returned a list for request i (it did not raise).
Answered(i) == log[i].kind \in {"ok", "no_json"}

\* Every request so far got a JSON payload with its data list.
AllOk == \A i \in 1..Len(log) : log[i].kind = "ok"

\* Calendar days of the inclusive window SDATE..EDATE.
DaySpan(sd, ed) == RocDay(ed) - RocDay(sd) + 1

\* The window of request i was split: the request made next is its child
\* (for the latest request: the child call is the one waiting to fetch).
WasSplit(i) ==
    IF i < Len(log) THEN log[i + 1].depth = log[i].depth + 1
    ELSE pc = "full" /\ Len(stack) = log[i].depth + 2

\* The window of request i is a leaf: answered and not split.
IsLeaf(i) == Answered(i) /\ ~WasSplit(i)

\* The range as fast mode sends it (lines 99-100).
WholeSd == _date_to_roc(_roc_to_date(sdate))
WholeEd == _date_to_roc(_roc_to_date(edate))

(***************************************************************************)
(* C1: the list fetch_ezsearch returns, in either mode and whatever the    *)
(* upstream answers, holds no two records with the same identity key       *)
(* (date, time, subject, link).                                            *)
(***************************************************************************)
NoDuplicateKeys(seq) ==
    \A i, j \in 1..Len(seq) :
        i # j => IdentityKey(seq[i]) # IdentityKey(seq[j])

C1_NoDuplicateKeys == pc = "returned" => NoDuplicateKeys(result)

\* What the code does keep: the full-mode result has pairwise distinct keys.
C1_FullModeNoDuplicateKeys ==
    (pc = "returned" /\ mode = "full") => NoDuplicateKeys(result)

(***************************************************************************)
(* C2: mode equivalence.  For a valid range of any length whose upstream   *)
(* record count is below Cap, full mode returns the same set of canonical  *)
(* records as fast mode does for the same range and keyword, the upstream  *)
(* answering every request with its payload.                               *)
(***************************************************************************)
C2_ModeEquivalence ==
    (/\ pc = "returned"
     /\ mode = "full"
     /\ AllOk
     /\ TrueCount(db, WholeSd, WholeEd) < Cap)
    => RangeOf(result)
         = RangeOf(FastRows(UpstreamData(db, WholeSd, WholeEd), subject))

\* What the code does keep under the same conditions: the two modes return
\* the same set of identity keys.
C2_SameIdentityKeys ==
    (/\ pc = "returned"
     /\ mode = "full"
     /\ AllOk
     /\ TrueCount(db, WholeSd, WholeEd) < Cap)
    => {IdentityKey(r) : r \in RangeOf(result)}
         = {IdentityKey(r) :
              r \in RangeOf(FastRows(UpstreamData(db, WholeSd, WholeEd), subject))}

(***************************************************************************)
(* The tree of windows, read from the history of a full-mode invocation.   *)
(***************************************************************************)
\* The requests for top-level blocks.
BlockStarts == {i \in 1..Len(log) : log[i].depth = 0}

\* The requests made for the block whose first request is i.
Members(i) ==
    {j \in i..Len(log) : \A k \in (i + 1)..j : log[k].depth > 0}

\* The retrieval of the block whose first request is i has returned.
BlockDone(i) ==
    \/ \E k \in (i + 1)..Len(log) : log[k].depth = 0
    \/ pc = "returned"

\* The request whose window was split into the window of request j.
Parent(j) ==
    CHOOSE i \in 1..(j - 1) :
        /\ log[i].depth = log[j].depth - 1
        /\ \A k \in (i + 1)..(j - 1) : log[k].depth >= log[j].depth

\* The requests whose windows come from splitting the window of request i:
\* one level deeper, with nothing at the level of i or above in between.
Children(i) ==
    {j \in (i + 1)..Len(log) :
        /\ log[j].depth = log[i].depth + 1
        /\ \A k \in (i + 1)..(j - 1) : log[k].depth > log[i].depth}

Window(i) == <<log[i].sd, log[i].ed>>

(***************************************************************************)
(* C3: in full mode a fetched window is split if and only if its fetch     *)
(* returned at least Cap records and it spans two or more calendar days;   *)
(* so a leaf that returned Cap records or more is a single day, and a      *)
(* single-day window is never split.                                       *)
(***************************************************************************)
C3_SplitIffCutAndMultiDay ==
    mode = "full" =>
        \A i \in 1..Len(log) :
            Answered(i) =>
                (WasSplit(i) <=>
                    (log[i].n >= Cap /\ DaySpan(log[i].sd, log[i].ed) >= 2))

\* What the code does keep: only a window of two or more calendar days that
\* came back with Cap records or more is split.
C3_SplitOnlyIfCutAndMultiDay ==
    mode = "full" =>
        \A i \in 1..Len(log) :
            (Answered(i) /\ WasSplit(i)) =>
                (log[i].n >= Cap /\ DaySpan(log[i].sd, log[i].ed) >= 2)

(***************************************************************************)
(* C4: leaf coverage.  For every top-level block whose retrieval returned, *)
(* every calendar day of the block lies in the SDATE..EDATE range of one   *)
(* of the block's leaf windows.                                            *)
(***************************************************************************)
C4_LeafCoverage ==
    mode = "full" =>
        \A i \in BlockStarts :
            BlockDone(i) =>
                LET leaves == {<<RocDay(log[j].sd), RocDay(log[j].ed)>> :
                                  j \in {m \in Members(i) : IsLeaf(m)}}
                IN \A day \in RocDay(log[i].sd)..RocDay(log[i].ed) :
                       \E w \in leaves : w[1] <= day /\ day <= w[2]

\* Two blocks retrieved, the first one through leaves at depth 2 or more.
C4_Witness ==
    /\ pc = "returned"
    /\ mode = "full"
    /\ Cardinality(BlockStarts) = 2
    /\ \E j \in Members(1) : IsLeaf(j) /\ log[j].depth >= 2

(***************************************************************************)
(* C5: every window submitted upstream (whole range, block, child at any   *)
(* depth) has a real start date and end date with SDATE <= EDATE.          *)
(***************************************************************************)
C5_ValidWindows ==
    \A i \in 1..Len(log) :
        /\ RocParses(log[i].sd)
        /\ RocParses(log[i].ed)
        /\ RocDay(log[i].sd) <= RocDay(log[i].ed)

\* What the code does keep: every SDATE and EDATE is a real date, and the
\* window of a top-level block has SDATE <= EDATE.
C5_RealDates ==
    \A i \in 1..Len(log) :
        /\ RocParses(log[i].sd)
        /\ RocParses(log[i].ed)
        /\ log[i].depth = 0 => RocDay(log[i].sd) <= RocDay(log[i].ed)

(***************************************************************************)
(* C6: when a window [start, end] is split, at any depth, the child        *)
(* windows queried are [start, mid] and then [mid + 1, end], with          *)
(* mid = start + floor((end - start) / 2) in calendar days, and no other.  *)
(* Example: 2024/01/01-2024/01/31 at or over the threshold with both       *)
(* halves below it takes exactly three requests.                           *)
(***************************************************************************)
MidDay(sd, ed) ==
    RocDay(sd) + ((RocDay(ed) - RocDay(sd)) \div 2)

C6_ChildWindows ==
    mode = "full" =>
        /\ \A i \in 1..Len(log) :
              LET kids == Children(i)
                  mid == MidDay(log[i].sd, log[i].ed)
              IN /\ Cardinality(kids) <= 2
                 /\ \A j \in kids :
                       Window(j) = IF j = i + 1
                                   THEN <<log[i].sd, DayRoc(mid)>>
                                   ELSE <<DayRoc(mid + 1), log[i].ed>>
                 /\ (pc = "returned" /\ WasSplit(i)) => Cardinality(kids) = 2
        /\ (/\ pc = "returned"
            /\ AllOk
            /\ Window(1) = <<(<<113, 1, 1>>), (<<113, 1, 31>>)>>
            /\ log[1].n >= Cap
            /\ TrueCount(db, <<113, 1, 1>>, <<113, 1, 16>>) < Cap
            /\ TrueCount(db, <<113, 1, 17>>, <<113, 1, 31>>) < Cap)
           => /\ Members(1) = {1, 2, 3}
              /\ Window(2) = <<(<<113, 1, 1>>), (<<113, 1, 16>>)>>
              /\ Window(3) = <<(<<113, 1, 17>>), (<<113, 1, 31>>)>>

\* What the code does keep: the window of a top-level block, whose a and b
\* are both at midnight, is split as stated, and the example holds.
C6_BlockChildWindows ==
    mode = "full" =>
        /\ \A i \in BlockStarts :
              LET mid == MidDay(log[i].sd, log[i].ed)
              IN \A j \in Children(i) :
                     Window(j) = IF j = i + 1
                                 THEN <<log[i].sd, DayRoc(mid)>>
                                 ELSE <<DayRoc(mid + 1), log[i].ed>>
        /\ (/\ pc = "returned"
            /\ AllOk
            /\ Window(1) = <<(<<113, 1, 1>>), (<<113, 1, 31>>)>>
            /\ log[1].n >= Cap
            /\ TrueCount(db, <<113, 1, 1>>, <<113, 1, 16>>) < Cap
            /\ TrueCount(db, <<113, 1, 17>>, <<113, 1, 31>>) < Cap)
           => /\ Members(1) = {1, 2, 3}
              /\ Window(2) = <<(<<113, 1, 1>>), (<<113, 1, 16>>)>>
              /\ Window(3) = <<(<<113, 1, 17>>), (<<113, 1, 31>>)>>

(***************************************************************************)
(* C7: chronological order.  In either mode every adjacent pair (a, b) of  *)
(* the returned list has (a.date, a.time) <= (b.date, b.time), strings     *)
(* compared lexicographically, a missing date or time read as "".          *)
(***************************************************************************)
OrEmpty(x) == IF x = None THEN <<>> ELSE x

StrLe(x, y) == x = y \/ StrLt(x, y)

DateTimeLe(a, b) ==
    \/ StrLt(OrEmpty(a.date), OrEmpty(b.date))
    \/ /\ OrEmpty(a.date) = OrEmpty(b.date)
       /\ StrLe(OrEmpty(a.time), OrEmpty(b.time))

C7_ChronologicalOrder ==
    pc = "returned" =>
        \A i \in 1..(Len(result) - 1) : DateTimeLe(result[i], result[i + 1])

\* A returned list of three or more rows, one of them undated, whose rows
\* were not in order before the sort.
C7_Witness ==
    /\ pc = "returned"
    /\ Len(result) >= 3
    /\ \E i \in 1..Len(result) : result[i].date = None
    /\ \E i \in 1..(Len(rows) - 1) : ~DateTimeLe(rows[i], rows[i + 1])

(***************************************************************************)
(* C8: filter correctness.  With a non-empty keyword, in either mode,      *)
(* every returned record has the keyword as a substring of its subject,    *)
(* description, item name or company short name, and a fetched record with *)
(* the keyword in none of the four is not returned; with no keyword the    *)
(* stage removes nothing.                                                  *)
(***************************************************************************)
HasKeyword(r) ==
    \E f \in {r.subject, r.desc, r.item, r.name} :
        f # None /\ Contains(subject, f)

Occurrences(seq, r) == Cardinality({i \in 1..Len(seq) : seq[i] = r})

C8_FilterCorrectness ==
    pc = "returned" =>
        IF subject # <<>>
        THEN /\ \A i \in 1..Len(result) : HasKeyword(result[i])
             /\ \A i \in 1..Len(rows) :
                   ~HasKeyword(rows[i]) => rows[i] \notin RangeOf(result)
        ELSE \A r \in RangeOf(rows) \cup RangeOf(result) :
                 Occurrences(result, r) = Occurrences(rows, r)

\* A keyword query that fetched a record without the keyword and one with
\* the keyword in its description only, and returned the latter.
C8_Witness ==
    /\ pc = "returned"
    /\ subject = Kw
    /\ \E i \in 1..Len(rows) : ~HasKeyword(rows[i])
    /\ \E i \in 1..Len(result) :
          /\ Contains(Kw, result[i].desc)
          /\ ~Contains(Kw, OrEmpty(result[i].subject))

(***************************************************************************)
(* C9: fail-fast with no partial result.  In full mode, once the fetch of  *)
(* any window has failed, fetch_ezsearch ends with the error and returns   *)
(* no list.  A fetch fails when the exchange is anything but a payload     *)
(* with its data list: a connection error, a non-success status, a body    *)
(* that cannot be parsed.                                                  *)
(***************************************************************************)
C9_FailFast ==
    (mode = "full" /\ \E i \in 1..Len(log) : log[i].kind # "ok")
    => /\ pc = "raised"
       /\ exc # "none"
       /\ result = <<>>

\* What the code does keep: a fetch that raises ends the invocation with
\* that exception and no list, whatever was fetched before.
C9_RaiseEndsInvocation ==
    (mode = "full" /\ \E i \in 1..Len(log) : ~Answered(i))
    => /\ pc = "raised"
       /\ exc # "none"
       /\ result = <<>>
       /\ ~Answered(Len(log))

(***************************************************************************)
(* C10: validation precedes I/O.  With an end date before the start date   *)
(* or a mode other than "fast" and "full", fetch_ezsearch raises the       *)
(* ValueError and no upstream request has been made.                       *)
(***************************************************************************)
BadArguments ==
    \/ mode \notin {"fast", "full"}
    \/ RocDay(edate) < RocDay(sdate)

C10_ValidationBeforeIO ==
    BadArguments =>
        /\ log = <<>>
        /\ pc \in {"start", "raised"}
        /\ pc = "raised" => exc = "ValueError"

\* The call was refused for its range, with a database that has records.
C10_Witness ==
    /\ pc = "raised"
    /\ exc = "ValueError"
    /\ mode = "full"
    /\ RocDay(edate) < RocDay(sdate)
    /\ db # <<>>
    /\ log = <<>>

(***************************************************************************)
(* C11: every failed upstream exchange of a fetch (the warm-up GET or the  *)
(* POST raising, a non-success status, a body that is not a JSON payload   *)
(* or holds no JSON object) makes that fetch raise the retrieval error,    *)
(* the RuntimeError of line 75, which is not the ValueError of validation; *)
(* the fetch never returns a list for it.                                  *)
(***************************************************************************)
Failed(i) == log[i].kind # "ok"

Ended == pc \in {"returned", "raised"}

C11_FailureRaisesRetrievalError ==
    \A i \in 1..Len(log) :
        Failed(i) =>
            /\ i = Len(log)
            /\ pc = "raised"
            /\ exc = "RuntimeError"

\* What the code does keep: a POST that raises, or whose status is not a
\* success, ends the fetch and the invocation with the RuntimeError.
C11_PostFailureRaisesRuntimeError ==
    \A i \in 1..Len(log) :
        log[i].kind = "post_error" =>
            /\ i = Len(log)
            /\ pc = "raised"
            /\ exc = "RuntimeError"

(***************************************************************************)
(* The "mops range" chat command (src/app.py, lines 443-471 and 509-510):  *)
(* it calls the engine in full mode with a keyword and replies with the    *)
(* formatted rows, with the no-data message when there is nothing to       *)
(* format, or with the error message when the call raised.                 *)
(***************************************************************************)
\* get_historical_announcements (mops_service.py 57-67): one row out per
\* row of fetch_ezsearch, with the keys of the service.
get_historical_announcements(raw_rows) ==
    [i \in 1..Len(raw_rows) |->
        [co_id    |-> raw_rows[i].code,
         name     |-> raw_rows[i].name,
         date_pub |-> raw_rows[i].date,
         date_say |-> raw_rows[i].time,
         subject  |-> raw_rows[i].subject,
         url      |-> raw_rows[i].link]]

\* Symbol 32 is the blank; str.strip() removes the blanks at both ends.
RECURSIVE LStrip(_)
LStrip(t) == IF t # <<>> /\ Head(t) = 32 THEN LStrip(Tail(t)) ELSE t

RECURSIVE RStrip(_)
RStrip(t) ==
    IF t # <<>> /\ t[Len(t)] = 32 THEN RStrip(SubSeq(t, 1, Len(t) - 1)) ELSE t

Strip(t) == RStrip(LStrip(t))

\* The text _ensure_text puts for a missing or blank value (13 characters).
Placeholder == [i \in 1..13 |-> 900 + i]

\* _ensure_text (app.py 147-152)
_ensure_text(x) ==
    LET t == IF x = None THEN <<>> ELSE Strip(x)
    IN IF t = <<>> THEN Placeholder ELSE t

\* len() of a text of the message.  A symbol is one character, but for the
\* ROC date of a record, whose three zero-padded fields and two slashes
\* are 3 + 1 + 2 + 1 + 2 characters.
TextLen(t, isDate) == IF isDate /\ t # Placeholder THEN 9 ELSE Len(t)

\* len(msg) of line 180: the three texts and the 9 characters around them.
MsgLen(x) ==
    TextLen(_ensure_text(x.name), FALSE)
        + TextLen(_ensure_text(x.subject), FALSE)
        + TextLen(_ensure_text(x.date_pub), TRUE) + 9

\* The loop of _fmt_rows (app.py 174-185): out holds the rows formatted so
\* far.  The message is "\n\n".join(out), empty iff out is.
RECURSIVE FmtLoop(_, _, _, _)
FmtLoop(rows_in, out, total_len, max_chars) ==
    IF rows_in = <<>> THEN [out |-> out, truncated |-> FALSE]
    ELSE LET x == Head(rows_in)
         IN IF total_len + MsgLen(x) + 2 > max_chars
            THEN [out |-> out, truncated |-> TRUE]
            ELSE FmtLoop(Tail(rows_in), Append(out, x),
                         total_len + MsgLen(x) + 2, max_chars)

_fmt_rows(rows_in, max_chars) == FmtLoop(rows_in, <<>>, 0, max_chars)

\* max_chars=4800 at app.py 465
MaxChars == 4800

\* The message _fmt_rows returns for the rows of the service is "".
MsgEmpty(rows_out) == _fmt_rows(rows_out, MaxChars).out = <<>>

\* The reply of the handler for an ended engine call: p is how the call
\* ended, res the list fetch_ezsearch returned.  A truncated message gets
\* the notice of lines 466-467 appended, so it is not empty.
ReplyOf(p, res) ==
    IF p = "raised" THEN "error"                    \* app.py 509-510
    ELSE LET rows_out == get_historical_announcements(res)
             truncated == _fmt_rows(rows_out, MaxChars).truncated
         IN IF MsgEmpty(rows_out) /\ ~truncated
            THEN "no_data"                          \* app.py 468
            ELSE "rows"

\* The handler calls the engine with a keyword (app.py 449-451) and the
\* default mode (mops_service.py 29).
HandlerCall == mode = "full" /\ subject # <<>>

(***************************************************************************)
(* C12: an empty result and a failure stay distinguishable.  The engine    *)
(* returns an empty list, and the chat command replies with its no-data    *)
(* message, only if every upstream fetch of the invocation got a parsable  *)
(* payload; if any fetch failed the caller gets the failure reply.         *)
(***************************************************************************)
C12_EmptyOnlyWhenAllSucceeded ==
    /\ (pc = "returned" /\ result = <<>>) => AllOk
    /\ (HandlerCall /\ Ended) =>
          /\ ReplyOf(pc, result) = "no_data" => AllOk
          /\ ~AllOk => ReplyOf(pc, result) = "error"

\* What the code does keep: a fetch that raised gives the failure reply,
\* and with every fetch answered by a payload the no-data reply means that
\* no fetched record has the keyword.
C12_RaisedFetchRepliesError ==
    (HandlerCall /\ Ended) =>
        /\ (\E i \in 1..Len(log) : ~Answered(i)) => ReplyOf(pc, result) = "error"
        /\ (AllOk /\ ReplyOf(pc, result) = "no_data") =>
              \A i \in 1..Len(rows) : ~HasKeyword(rows[i])

(***************************************************************************)
(* C13: recursion bound.  For a window of D calendar days (SDATE and EDATE *)
(* included) handed to _fetch_chunk, no request made for it or below it    *)
(* lies more than ceil(log2(D)) levels of splitting below it, whatever the *)
(* upstream answers.                                                       *)
(***************************************************************************)
RECURSIVE CeilLog2(_)
CeilLog2(n) == IF n <= 1 THEN 0 ELSE 1 + CeilLog2((n + 1) \div 2)

\* Request j was made by the call of request i or by a call below it.
InSubtree(i, j) ==
    i <= j /\ \A k \in (i + 1)..j : log[k].depth > log[i].depth

\* The requests j..Len(log) keep the bound.  path holds the bounds
\* ceil(log2(D)) of the windows of the calls that enclose request j,
\* outermost first: the request of depth d is enclosed by the calls of the
\* latest requests of depths 0..d-1 before it.  The bound of a window that
\* has no request below it is not needed (0 stands for it).
RECURSIVE DepthWithinBounds(_, _)
DepthWithinBounds(j, path) ==
    IF j > Len(log) THEN TRUE
    ELSE LET d == log[j].depth
             up == SubSeq(path, 1, d)
             below == j < Len(log) /\ log[j + 1].depth > d
             bound == IF below
                      THEN CeilLog2(DaySpan(log[j].sd, log[j].ed))
                      ELSE 0
         IN /\ Len(path) >= d
            /\ \A k \in 1..d : d - (k - 1) <= up[k]
            /\ DepthWithinBounds(j + 1, Append(up, bound))

C13_RecursionBound ==
    mode = "full" => DepthWithinBounds(1, <<>>)

\* A block of BlockDays + 1 days split down to a single day at the depth of
\* the bound, and below it a window of two days split at depth 1.
C13_Witness ==
    /\ pc = "returned"
    /\ mode = "full"
    /\ DaySpan(log[1].sd, log[1].ed) = BlockDays + 1
    /\ \E j \in Members(1) :
          /\ log[j].depth = CeilLog2(BlockDays + 1)
          /\ log[j].depth >= 5
          /\ DaySpan(log[j].sd, log[j].ed) = 1
          /\ DaySpan(log[Parent(j)].sd, log[Parent(j)].ed) = 2

(***************************************************************************)
(* C14: partition coverage.  In full mode the top-level blocks are made in *)
(* ascending order: the first starts on the start date of the range, each  *)
(* next one starts the day after the one before ends, none ends after the  *)
(* end date, and when the call returns the last one ends on the end date;  *)
(* so the blocks do not overlap and cover exactly the days of the range.   *)
(***************************************************************************)
\* Requests i and k are the first requests of two consecutive blocks.
NextBlock(i, k) ==
    /\ log[i].depth = 0
    /\ log[k].depth = 0
    /\ i < k
    /\ \A m \in (i + 1)..(k - 1) : log[m].depth > 0

LastBlock ==
    LET starts == BlockStarts
    IN CHOOSE i \in starts : \A k \in starts : k <= i

C14_PartitionCoverage ==
    mode = "full" =>
        LET starts == BlockStarts
        IN /\ log # <<>> => (1 \in starts /\ log[1].sd = WholeSd)
           /\ \A i \in starts :
                 /\ RocDay(log[i].sd) <= RocDay(log[i].ed)
                 /\ RocDay(log[i].ed) <= RocDay(edate)
           /\ \A i, k \in starts :
                 NextBlock(i, k) =>
                     RocDay(log[k].sd) = RocDay(log[i].ed) + 1
           /\ pc = "returned" =>
                 (starts # {} /\ log[LastBlock].ed = WholeEd)

\* The long range retrieved in three blocks, the last one a single day.
C14_Witness ==
    /\ pc = "returned"
    /\ mode = "full"
    /\ Cardinality(BlockStarts) = 3
    /\ RocDay(edate) - RocDay(sdate) = LongSpan
    /\ log[LastBlock].sd = log[LastBlock].ed
    /\ result # <<>>

(***************************************************************************)
(* C15: block size bound.  Every top-level block spans at most BlockDays   *)
(* (30) calendar days, SDATE and EDATE both counted.                       *)
(***************************************************************************)
C15_BlockSizeBound ==
    \A i \in BlockStarts :
        mode = "full" => DaySpan(log[i].sd, log[i].ed) <= BlockDays

\* What the code does keep: the end of a block is at most BlockDays days
\* after its start, so a block spans at most BlockDays + 1 calendar days.
C15_BlockSpansAtMost31 ==
    \A i \in BlockStarts :
        mode = "full" => DaySpan(log[i].sd, log[i].ed) <= BlockDays + 1

(***************************************************************************)
(* C16: dedup keeps the first occurrence and loses nothing.  In full mode, *)
(* for every identity key in the concatenation of the leaf results (in the *)
(* order the leaves were fetched: blocks ascending, left child before      *)
(* right child), the deduplicated sequence `rows` holds exactly one record *)
(* with that key, the first one of the concatenation, and no other key.    *)
(***************************************************************************)
\* What the leaf of request i contributed: its normalized response.
LeafRows(i) ==
    IF log[i].kind = "ok"
    THEN _normalize(UpstreamData(db, log[i].sd, log[i].ed))
    ELSE <<>>

\* The leaf results of requests 1..n, concatenated in request order.
RECURSIVE LeafConcat(_)
LeafConcat(n) ==
    IF n = 0 THEN <<>>
    ELSE LeafConcat(n - 1) \o (IF IsLeaf(n) THEN LeafRows(n) ELSE <<>>)

C16_DedupFirstOccurrence ==
    (pc = "returned" /\ mode = "full") =>
        LET all == LeafConcat(Len(log))
            First(k) == CHOOSE f \in 1..k :
                            /\ IdentityKey(all[f]) = IdentityKey(all[k])
                            /\ \A g \in 1..(f - 1) :
                                  IdentityKey(all[g]) # IdentityKey(all[k])
        IN /\ \A k \in 1..Len(all) :
                 /\ Cardinality({q \in 1..Len(rows) :
                        IdentityKey(rows[q]) = IdentityKey(all[k])}) = 1
                 /\ \E q \in 1..Len(rows) : rows[q] = all[First(k)]
           /\ \A q \in 1..Len(rows) :
                 \E k \in 1..Len(all) : rows[q] = all[k] /\ First(k) = k

\* Several leaves were fetched and their results hold two different records
\* with one identity key, and also the same record twice.
C16_Witness ==
    /\ pc = "returned"
    /\ mode = "full"
    /\ Cardinality({i \in 1..Len(log) : IsLeaf(i)}) >= 2
    /\ LET all == LeafConcat(Len(log))
       IN /\ \E i, k \in 1..Len(all) :
                i < k /\ all[i] # all[k]
                /\ IdentityKey(all[i]) = IdentityKey(all[k])
          /\ Len(rows) < Len(all)
          /\ Len(rows) >= 2

(***************************************************************************)
(* C17: sequential dispatch without retry.  The requests of a full-mode    *)
(* invocation are made in pre-order (a window before its children, the     *)
(* whole left subtree before the right child, blocks in ascending order),  *)
(* no window is requested twice, and after a fetch that failed (anything   *)
(* but a payload with its data list) no further request is made.           *)
(***************************************************************************)
\* Requests in pre-order: a request is at most one level below the one
\* before it, and of two requests the later one is in the subtree and in
\* the window of the earlier one, or its window lies after it.
PreOrder ==
    /\ \A j \in 1..Len(log) :
          log[j].depth <= (IF j = 1 THEN 0 ELSE log[j - 1].depth + 1)
    /\ \A i, j \in 1..Len(log) :
          i < j =>
              IF InSubtree(i, j)
              THEN /\ RocDay(log[i].sd) <= RocDay(log[j].sd)
                   /\ RocDay(log[j].ed) <= RocDay(log[i].ed)
              ELSE RocDay(log[i].ed) < RocDay(log[j].sd)

NoWindowTwice ==
    \A i, j \in 1..Len(log) : i # j => Window(i) # Window(j)

C17_SequentialNoRetry ==
    mode = "full" =>
        /\ PreOrder
        /\ NoWindowTwice
        /\ \A i \in 1..Len(log) : Failed(i) => i = Len(log)

\* What the code does keep: the order of the requests, and no request
\* after a fetch that raised.
C17_NoRequestAfterRaise ==
    mode = "full" =>
        /\ PreOrder
        /\ \A i \in 1..Len(log) : ~Answered(i) => i = Len(log)

(***************************************************************************)
(* C18: termination.  Under FairSpec a full-mode invocation with a valid   *)
(* range ends (it returns or raises), whatever the upstream answers; on    *)
(* the way every child window is strictly shorter than the window it was   *)
(* split from, and every block that returns moves cur forward.             *)
(***************************************************************************)
ChildrenShorter ==
    \A j \in 1..Len(log) :
        log[j].depth > 0 =>
            DaySpan(log[j].sd, log[j].ed)
                < DaySpan(log[Parent(j)].sd, log[Parent(j)].ed)

C18_Termination ==
    /\ [](mode = "full" => ChildrenShorter)
    /\ [][(pc = "full" /\ pc' # "raised" /\ Len(stack') <= 1) => DtLt(cur, cur')]_vars
    /\ (pc = "start" /\ mode = "full" /\ ~Invalid(mode, sdate, edate)) ~> Ended

\* x < y on timedeltas
DeltaLt(x, y) == DtLt(x, y)

\* What the code does keep: every active call was given a strictly shorter
\* b - a than its caller, every block that returns moves cur forward, and
\* the invocation ends.
CallsShorter ==
    \A k \in 1..(Len(stack) - 1) :
        DeltaLt(DtSub(stack[k + 1].b, stack[k + 1].a),
                DtSub(stack[k].b, stack[k].a))

C18_EndsWithShorterCalls ==
    /\ [](mode = "full" => CallsShorter)
    /\ [][(pc = "full" /\ pc' # "raised" /\ Len(stack') <= 1) => DtLt(cur, cur')]_vars
    /\ (pc = "start" /\ mode = "full" /\ ~Invalid(mode, sdate, edate)) ~> Ended

(***************************************************************************)
(* C19: leaf disjointness.  In a full-mode invocation no calendar day lies *)
(* in the windows of two different leaves, whatever block or depth they    *)
(* are at.                                                                 *)
(***************************************************************************)
C19_LeafDisjoint ==
    mode = "full" =>
        LET leaves == {i \in 1..Len(log) : IsLeaf(i)}
            lo == [i \in leaves |-> RocDay(log[i].sd)]
            hi == [i \in leaves |-> RocDay(log[i].ed)]
        IN \A i \in leaves :
               \A j \in {k \in leaves : k > i} :
                   hi[i] < lo[j] \/ hi[j] < lo[i]

\* Five leaves or more in two blocks, two of them on adjacent days at
\* different depths.
C19_Witness ==
    /\ pc = "returned"
    /\ mode = "full"
    /\ Cardinality(BlockStarts) >= 2
    /\ Cardinality({i \in 1..Len(log) : IsLeaf(i)}) >= 5
    /\ \E i, j \in 1..Len(log) :
          /\ IsLeaf(i) /\ IsLeaf(j)
          /\ log[i].depth # log[j].depth
          /\ RocDay(log[j].sd) = RocDay(log[i].ed) + 1

====
